---- MODULE Spec2Model ----
(***************************************************************************)
(* lemmynator: the windowed listing engine (ui/listing/page.rs, Page) and  *)
(* the runtime loop (app.rs, App).                                         *)
(*                                                                         *)
(* Number representation.  posts_offset is a usize (64 bits); TLC's        *)
(* integers are 32 bits wide.  A usize value v < 2^63 is represented by v  *)
(* itself and a value v >= 2^63 (reachable only by wrapping below zero in  *)
(* a build without overflow checks) by v - 2^64, a negative number.        *)
(* Addition and subtraction of small operands are then plain integer       *)
(* addition and subtraction; comparisons go through the U* operators.      *)
(***************************************************************************)
EXTENDS Integers, Sequences, FiniteSets

VARIABLES
    posts,                 \* Page.posts: Vec<LemmynatorPost>
    posts_offset,          \* Page.posts_offset: usize
    currently_focused,     \* Page.currently_focused: u8
    currently_displaying,  \* Page.currently_displaying: u8
    bottom_bar,            \* what render_bottom_bar last drew
    panic,                 \* "none", or the site at which the process panicked
    overflow_checks,       \* build profile: TRUE = debug (overflow panics), FALSE = release (wraps)
    next_id,               \* identity of the next post the fetch collaborator supplies
    downs,                 \* number of scroll_down calls made so far
    should_quit,           \* App.should_quit
    mode,                  \* App.mode
    action_queue,          \* the unbounded channel action_tx -> action_rx
    loop,                  \* where App::run is: "created", "running", "returned Ok", "returned Err"
    screen,                \* the frame the terminal shows: the offset and focus last drawn
    last                   \* the action main_loop handled in its latest iteration, and its source

pageVars == <<posts, posts_offset, currently_focused, currently_displaying>>

(***************************************************************************)
(* Bounds of the model.                                                    *)
(***************************************************************************)
MaxPosts == 7        \* posts the fetch collaborator supplies in one run
MaxHeight == 26      \* tallest ordinary region handed to render
MaxOffset == 7       \* scrolling stops being explored beyond this offset
MaxDowns == 12       \* scroll_down calls counted in a run of scroll_down alone
MaxQueue == 2        \* actions waiting in the channel before more are posted
MaxWindow == 3       \* posts on the page when layout is explored over every mix of shapes
MaxLoaded == 2       \* posts fetched while the runtime loop is explored
TallHeight == 2056   \* one region tall enough for (height / 8) to exceed a u8

U8 == 256
U16 == 65536
MinPostHeight == 8
RetainedPages == 3
EvictedPages == 2

Heights == (0 .. MaxHeight) \cup {TallHeight}

(***************************************************************************)
(* LemmynatorPost, as far as Page reads it: body.is_empty(),               *)
(* is_image_only(), image_is_wide() and the is_focused flag.               *)
(***************************************************************************)
BodyOnly == [body_is_empty |-> FALSE, is_image_only |-> FALSE, image_is_wide |-> "None"]
TitleOnly == [body_is_empty |-> TRUE, is_image_only |-> FALSE, image_is_wide |-> "None"]
WideImage == [body_is_empty |-> TRUE, is_image_only |-> TRUE, image_is_wide |-> "SomeTrue"]
NarrowImage == [body_is_empty |-> FALSE, is_image_only |-> FALSE, image_is_wide |-> "SomeFalse"]

PostShapes == {BodyOnly, TitleOnly, WideImage, NarrowImage}

\* the feed the fetch collaborator reads from: the shapes in rotation
FeedShape(id) ==
    CASE id % 4 = 1 -> NarrowImage
      [] id % 4 = 2 -> TitleOnly
      [] id % 4 = 3 -> WideImage
      [] OTHER -> BodyOnly

NewPost(id, shape) ==
    [id |-> id, body_is_empty |-> shape.body_is_empty,
     is_image_only |-> shape.is_image_only,
     image_is_wide |-> shape.image_is_wide, is_focused |-> FALSE]

(***************************************************************************)
(* usize arithmetic on the representation described above.                 *)
(***************************************************************************)
USubUnderflows(a, b) == a >= 0 /\ a < b
UAddOverflows(a, b) == a < 0 /\ a + b >= 0
\* a > n for a usize a and a small n
UGreater(a, n) == a < 0 \/ a > n
\* a / c > n for a usize a, 1 <= c <= 255 and a small n
UQuotientExceeds(a, c, n) == a < 0 \/ (a \div c) > n

Min(a, b) == IF a < b THEN a ELSE b

\* Page as a value
PageOf(ps, off, foc, disp) ==
    [posts |-> ps, posts_offset |-> off, currently_focused |-> foc,
     currently_displaying |-> disp]

page == PageOf(posts, posts_offset, currently_focused, currently_displaying)

\* Page::new
NewPage == PageOf(<<>>, 0, 0, 0)

Outcome(p, site) == [page |-> p, panic |-> site]

\* scroll_up with the focus put one row past the last row of the window
scroll_up_focus_past_window(p, oc) ==
    LET c == p.currently_displaying IN
    IF p.currently_focused = 0 /\ p.posts_offset # 0
    THEN Outcome([p EXCEPT !.posts_offset = p.posts_offset - c,
                           !.currently_focused = c % U8], "none")
    ELSE IF p.currently_focused # 0
         THEN Outcome([p EXCEPT !.currently_focused = p.currently_focused - 1], "none")
         ELSE Outcome(p, "none")

(***************************************************************************)
(* Page::scroll_up                                                         *)
(***************************************************************************)
scroll_up(p, oc) ==
    LET c == p.currently_displaying IN
    IF p.currently_focused = 0 /\ p.posts_offset # 0
    THEN IF oc /\ USubUnderflows(p.posts_offset, c)
         THEN Outcome(p, "scroll_up: posts_offset - currently_displaying")
         ELSE LET q == [p EXCEPT !.posts_offset = p.posts_offset - c] IN
              IF oc /\ c = 0
              THEN Outcome(q, "scroll_up: currently_displaying - 1")
              ELSE Outcome([q EXCEPT !.currently_focused = (c - 1) % U8], "none")
    ELSE IF p.currently_focused # 0
         THEN Outcome([p EXCEPT !.currently_focused = p.currently_focused - 1], "none")
         ELSE Outcome(p, "none")

(***************************************************************************)
(* Page::scroll_down                                                       *)
(***************************************************************************)
scroll_down(p, oc) ==
    LET c == p.currently_displaying IN
    IF oc /\ p.currently_focused + 1 >= U8
    THEN Outcome(p, "scroll_down: currently_focused + 1")
    ELSE LET q == [p EXCEPT !.currently_focused = (p.currently_focused + 1) % U8] IN
         IF q.currently_focused >= c
         THEN IF oc /\ UAddOverflows(q.posts_offset, c)
              THEN Outcome(q, "scroll_down: posts_offset + currently_displaying")
              ELSE Outcome([q EXCEPT !.posts_offset = q.posts_offset + c,
                                     !.currently_focused = 0], "none")
         ELSE Outcome(q, "none")

(***************************************************************************)
(* Page::update_count_of_currently_displaying                              *)
(***************************************************************************)
update_count_of_currently_displaying(p, height) ==
    [p EXCEPT !.currently_displaying = (height \div MinPostHeight) % U8]

(***************************************************************************)
(* The slice posts[posts_offset..][..currently_displaying] taken by        *)
(* rects_for_posts and render_posts_in_layout: a range that starts past    *)
(* the end of the vector, or ends past the end of the tail, panics.        *)
(***************************************************************************)
displayed_slice(p) ==
    LET len == Len(p.posts)
        c == p.currently_displaying IN
    IF UGreater(p.posts_offset, len)
    THEN [panic |-> "slice: range start past the end of posts", from |-> 1, to |-> 0]
    ELSE IF c > len - p.posts_offset
         THEN [panic |-> "slice: range end past the end of posts", from |-> 1, to |-> 0]
         ELSE [panic |-> "none", from |-> p.posts_offset + 1, to |-> p.posts_offset + c]

\* the height rects_for_posts asks the layout for
vertical_length(post) ==
    IF post.body_is_empty /\ ~post.is_image_only
    THEN 5
    ELSE IF post.image_is_wide # "None"
         THEN IF post.image_is_wide = "SomeTrue" THEN 7 ELSE 8
         ELSE 7

\* Layout::vertical([Length(v), Percentage(100)]).split(pool): the first
\* rectangle gets v rows, or all of the pool when it is shorter; the second
\* the rest
layout_split(pool, v) ==
    LET h == Min(v, pool.height) IN
    << [y |-> pool.y, height |-> h],
       [y |-> pool.y + h, height |-> pool.height - h] >>

RECURSIVE stack_rects(_, _, _, _)
stack_rects(ps, i, to, rect_pool) ==
    IF i > to
    THEN <<>>
    ELSE LET layout == layout_split(rect_pool, vertical_length(ps[i])) IN
         <<layout[1]>> \o stack_rects(ps, i + 1, to, layout[2])

(***************************************************************************)
(* Page::rects_for_posts                                                   *)
(***************************************************************************)
rects_for_posts(p, rect_pool) ==
    LET s == displayed_slice(p) IN
    IF s.panic # "none"
    THEN [panic |-> s.panic, rects |-> <<>>]
    ELSE [panic |-> "none", rects |-> stack_rects(p.posts, s.from, s.to, rect_pool)]

RECURSIVE sum_heights(_)
sum_heights(rects) ==
    IF rects = <<>> THEN 0
    ELSE (rects[1].height + sum_heights(Tail(rects))) % U16

\* the padding moving every rectangle down by one row only
drawn_post_shift_by_one(p, rects, pad, s, k) ==
    LET post == p.posts[s.from + k - 1]
        index == k - 1
        rect == rects[k]
        y == IF pad THEN (rect.y + 1) % U16 ELSE rect.y IN
    [id |-> post.id, y |-> y, height |-> rect.height,
     is_focused |-> post.is_focused \/ p.currently_focused = index % U8]

(***************************************************************************)
(* Page::render_posts_in_layout: what is drawn, in order; every post       *)
(* visited has is_focused cleared after it is drawn.                       *)
(***************************************************************************)
drawn_post(p, rects, pad, s, k) ==
    LET post == p.posts[s.from + k - 1]
        index == k - 1
        rect == rects[k]
        y == IF pad THEN (rect.y + k) % U16 ELSE rect.y IN
    [id |-> post.id, y |-> y, height |-> rect.height,
     is_focused |-> post.is_focused \/ p.currently_focused = index % U8]

render_posts_in_layout(p, rects, space_for_padding_available) ==
    LET s == displayed_slice(p) IN
    IF s.panic # "none"
    THEN [panic |-> s.panic, drawn |-> <<>>, posts |-> p.posts]
    ELSE LET n == Min(s.to - s.from + 1, Len(rects)) IN
         [panic |-> "none",
          drawn |-> [k \in 1 .. n |->
                       drawn_post(p, rects, space_for_padding_available, s, k)],
          posts |-> [i \in 1 .. Len(p.posts) |->
                       IF i >= s.from /\ i < s.from + n
                       THEN [p.posts[i] EXCEPT !.is_focused = FALSE]
                       ELSE p.posts[i]]]

(***************************************************************************)
(* Page::render_bottom_bar: the page indicator, or nothing                 *)
(***************************************************************************)
render_bottom_bar(p) ==
    IF p.currently_displaying # 0
    THEN [shown |-> TRUE,
          current_page |-> IF p.posts_offset < 0 THEN -1
                           ELSE (p.posts_offset \div p.currently_displaying) + 1]
    ELSE [shown |-> FALSE, current_page |-> 0]

(***************************************************************************)
(* Page::render, the eviction step (lines 140-144)                         *)
(***************************************************************************)
evict(p, oc) ==
    LET c == p.currently_displaying IN
    IF c = 0
    THEN Outcome(p, "render: posts_offset / currently_displaying, division by zero")
    ELSE IF UQuotientExceeds(p.posts_offset, c, RetainedPages)
         THEN IF EvictedPages * c > Len(p.posts)
              THEN Outcome(p, "render: drain range end past the end of posts")
              ELSE LET q == [p EXCEPT !.posts =
                               SubSeq(p.posts, EvictedPages * c + 1, Len(p.posts))] IN
                   IF oc /\ USubUnderflows(q.posts_offset, c * EvictedPages)
                   THEN Outcome(q, "render: posts_offset - currently_displaying * 2")
                   ELSE Outcome([q EXCEPT !.posts_offset =
                                   q.posts_offset - c * EvictedPages], "none")
         ELSE Outcome(p, "none")

Rendered(p, site, rects, drawn) ==
    [page |-> p, panic |-> site, rects |-> rects, drawn |-> drawn]

(***************************************************************************)
(* Page::render                                                            *)
(***************************************************************************)
render(p0, rect, oc) ==
    LET p1 == update_count_of_currently_displaying(p0, rect.height)
        e == evict(p1, oc) IN
    IF e.panic # "none"
    THEN Rendered(e.page, e.panic, <<>>, <<>>)
    ELSE LET p2 == e.page
             r == rects_for_posts(p2, rect) IN
         IF r.panic # "none"
         THEN Rendered(p2, r.panic, <<>>, <<>>)
         ELSE LET size_occupied == sum_heights(r.rects) IN
              IF oc /\ size_occupied > rect.height
              THEN Rendered(p2, "render: main_rect.height - size_occupied", r.rects, <<>>)
              ELSE LET space_for_padding_available ==
                           (rect.height - size_occupied) % U16 > p2.currently_displaying
                       d == render_posts_in_layout(p2, r.rects, space_for_padding_available)
                   IN Rendered([p2 EXCEPT !.posts = d.posts], d.panic, r.rects, d.drawn)

Region(h) == [y |-> 0, height |-> h]

\* the terminal before App::render has drawn a frame
BlankScreen == [drawn |-> FALSE, posts_offset |-> 0, currently_focused |-> 0]

\* the frame App::render draws of a page
FrameOf(p) ==
    [drawn |-> TRUE, posts_offset |-> p.posts_offset,
     currently_focused |-> p.currently_focused]

\* main_loop before its first iteration
NothingHandled == [source |-> "none", action |-> "None"]

(***************************************************************************)
(* Initial state: Page::new, in either build profile.                      *)
(***************************************************************************)
InitPage ==
    /\ posts = NewPage.posts
    /\ posts_offset = NewPage.posts_offset
    /\ currently_focused = NewPage.currently_focused
    /\ currently_displaying = NewPage.currently_displaying
    /\ bottom_bar = [shown |-> FALSE, current_page |-> 0]
    /\ panic = "none"
    /\ overflow_checks \in BOOLEAN
    /\ next_id = 1
    /\ downs = 0
    /\ should_quit = FALSE
    /\ mode = "Normal"
    /\ action_queue = <<>>
    /\ loop = "created"
    /\ screen = BlankScreen
    /\ last = NothingHandled

appVars == <<should_quit, mode, action_queue, loop, screen, last>>

SetPage(o) ==
    /\ posts' = o.page.posts
    /\ posts_offset' = o.page.posts_offset
    /\ currently_focused' = o.page.currently_focused
    /\ currently_displaying' = o.page.currently_displaying
    /\ panic' = o.panic

Running == panic = "none"

\* Action::Up reaching Page::handle_actions
Up ==
    /\ Running
    /\ posts_offset >= -MaxOffset
    /\ SetPage(scroll_up(page, overflow_checks))
    /\ UNCHANGED <<bottom_bar, overflow_checks, next_id, downs, appVars>>

\* Page::handle_actions, Action::Down => self.scroll_down()
ScrollDownStep ==
    /\ Running
    /\ SetPage(scroll_down(page, overflow_checks))
    /\ UNCHANGED <<bottom_bar, overflow_checks, next_id, appVars>>

\* Action::Down reaching Page::handle_actions
Down ==
    /\ posts_offset <= MaxOffset
    /\ ScrollDownStep
    /\ UNCHANGED downs

\* Page::render called with a region of height h
Render(h) ==
    /\ Running
    /\ SetPage(render(page, Region(h), overflow_checks))
    /\ UNCHANGED <<bottom_bar, overflow_checks, next_id, downs, appVars>>

\* Page::render_bottom_bar
RenderBottomBar ==
    /\ Running
    /\ bottom_bar' = render_bottom_bar(page)
    /\ UNCHANGED <<pageVars, panic, overflow_checks, next_id, downs, appVars>>

\* the fetch collaborator appends the next post of the feed to Page.posts
AppendPost ==
    /\ Running
    /\ next_id <= MaxPosts
    /\ posts' = Append(posts, NewPost(next_id, FeedShape(next_id)))
    /\ next_id' = next_id + 1
    /\ UNCHANGED <<posts_offset, currently_focused, currently_displaying,
                   bottom_bar, panic, overflow_checks, downs, appVars>>

vars == <<posts, posts_offset, currently_focused, currently_displaying,
          bottom_bar, panic, overflow_checks, next_id, downs,
          should_quit, mode, action_queue, loop, screen, last>>

NextPage ==
    \/ Up
    \/ Down
    \/ \E h \in Heights : Render(h)
    \/ RenderBottomBar
    \/ AppendPost

\* Page under any interleaving of its operations
SpecPage == InitPage /\ [][NextPage]_vars

(***************************************************************************)
(* Action, as far as the runtime loop and Page tell its variants apart;    *)
(* "Other" stands for every variant neither of them matches on.  An        *)
(* Option<Action> is an action or "None".                                  *)
(***************************************************************************)
Actions == {"Quit", "Render", "SwitchToInputMode", "SwitchToNormalMode",
            "Up", "Down", "Other"}

Handled(p, site, follow_up) == [page |-> p, panic |-> site, follow_up |-> follow_up]

\* handle_actions with the catch-all arm asking for a redraw too
handle_actions_always_render(p, action, oc) ==
    CASE action = "Up" ->
           LET o == scroll_up(p, oc) IN Handled(o.page, o.panic, "Render")
      [] action = "Down" ->
           LET o == scroll_down(p, oc) IN Handled(o.page, o.panic, "Render")
      [] OTHER -> Handled(p, "none", "Render")

(***************************************************************************)
(* Page::handle_actions                                                    *)
(***************************************************************************)
handle_actions(p, action, oc) ==
    CASE action = "Up" ->
           LET o == scroll_up(p, oc) IN Handled(o.page, o.panic, "Render")
      [] action = "Down" ->
           LET o == scroll_down(p, oc) IN Handled(o.page, o.panic, "Render")
      [] OTHER -> Handled(p, "none", "None")

\* MainWindow::handle_actions: the root component hands the action to Page
main_window_handle_actions(p, action, oc) == handle_actions(p, action, oc)

\* MainWindow::render: the root component renders Page into the frame
main_window_render(p, height, oc) == render(p, Region(height), oc)

\* Action::is_render
is_render(action) == action = "Render"

Updated(quit, m, h) ==
    [should_quit |-> quit, mode |-> m, page |-> h.page, panic |-> h.panic,
     follow_up |-> h.follow_up]

\* update with the SwitchToInputMode arm returning no Render
update_switch_without_render(quit, m, p, action, oc) ==
    CASE action = "Quit" -> Updated(TRUE, m, Handled(p, "none", "None"))
      [] action = "Render" -> Updated(quit, m, Handled(p, "none", "Render"))
      [] action = "SwitchToInputMode" ->
           Updated(quit, "Input", Handled(p, "none", "None"))
      [] action = "SwitchToNormalMode" ->
           Updated(quit, "Normal", Handled(p, "none", "Render"))
      [] OTHER -> Updated(quit, m, main_window_handle_actions(p, action, oc))

\* update with the Render arm returning nothing
update_render_not_returned(quit, m, p, action, oc) ==
    CASE action = "Quit" -> Updated(TRUE, m, Handled(p, "none", "None"))
      [] action = "Render" -> Updated(quit, m, Handled(p, "none", "None"))
      [] action = "SwitchToInputMode" ->
           Updated(quit, "Input", Handled(p, "none", "Render"))
      [] action = "SwitchToNormalMode" ->
           Updated(quit, "Normal", Handled(p, "none", "Render"))
      [] OTHER -> Updated(quit, m, main_window_handle_actions(p, action, oc))

(***************************************************************************)
(* App::update                                                             *)
(***************************************************************************)
update(quit, m, p, action, oc) ==
    CASE action = "Quit" -> Updated(TRUE, m, Handled(p, "none", "None"))
      [] action = "Render" -> Updated(quit, m, Handled(p, "none", "Render"))
      [] action = "SwitchToInputMode" ->
           Updated(quit, "Input", Handled(p, "none", "Render"))
      [] action = "SwitchToNormalMode" ->
           Updated(quit, "Normal", Handled(p, "none", "Render"))
      [] OTHER -> Updated(quit, m, main_window_handle_actions(p, action, oc))

\* the follow-up put at the head of the queue
Sent_at_head(queue, follow_up) ==
    IF follow_up = "None" THEN queue ELSE <<follow_up>> \o queue

\* action_tx.send(action) for the action update returned, if any
Sent(queue, follow_up) ==
    IF follow_up = "None" THEN queue ELSE Append(queue, follow_up)

\* the should_quit test left out: the loop goes on after Quit
AfterIteration_without_break(quit) == "running"

\* main_loop: `if self.should_quit { break Ok(()) }`
AfterIteration(quit) == IF quit THEN "returned Ok" ELSE "running"

\* main_loop: update(action), send what it returns, then the should_quit test
UpdateAndSend(action, queue) ==
    LET u == update(should_quit, mode, page, action, overflow_checks) IN
    /\ SetPage(u)
    /\ should_quit' = u.should_quit
    /\ mode' = u.mode
    /\ action_queue' = IF u.panic = "none" THEN Sent(queue, u.follow_up) ELSE queue
    /\ loop' = IF u.panic = "none" THEN AfterIteration(u.should_quit) ELSE loop
    /\ UNCHANGED screen

\* scroll actions enter the loop (as terminal events, or posted to the queue)
\* only while the offset is within MaxLoaded; one already queued is handled
WithinExploredOffsets(action) ==
    /\ action = "Down" => posts_offset <= MaxLoaded
    /\ action = "Up" => posts_offset >= -MaxLoaded

\* App::render: draw the root component into the whole terminal; the frame
\* reaches the screen unless the render panics or the draw fails
DrawFrame(height, draw_ok) ==
    LET r == main_window_render(page, height, overflow_checks) IN
    /\ SetPage(r)
    /\ screen' = IF r.panic = "none" /\ draw_ok THEN FrameOf(r.page) ELSE screen

(***************************************************************************)
(* App::run up to main_loop: the initial render                            *)
(***************************************************************************)
RunStart(height, draw_ok) ==
    /\ Running
    /\ loop = "created"
    /\ DrawFrame(height, draw_ok)
    /\ loop' = IF panic' # "none" THEN loop
               ELSE IF draw_ok THEN "running" ELSE "returned Err"
    /\ UNCHANGED <<bottom_bar, overflow_checks, next_id, downs,
                   should_quit, mode, action_queue, last>>

(***************************************************************************)
(* main_loop, the branch `event = tui_event`: translated is what           *)
(* event_to_action(self.mode, event) returns                               *)
(***************************************************************************)
TerminalEvent(translated) ==
    /\ Running
    /\ loop = "running"
    /\ Len(action_queue) < MaxQueue
    /\ WithinExploredOffsets(translated)
    /\ IF translated = "None"
       THEN UNCHANGED <<pageVars, panic, appVars>>
       ELSE /\ UpdateAndSend(translated, action_queue)
            /\ last' = [source |-> "terminal", action |-> translated]
    /\ UNCHANGED <<bottom_bar, overflow_checks, next_id, downs>>

(***************************************************************************)
(* main_loop, the branch `action = action`, for an action that is not      *)
(* Render                                                                  *)
(***************************************************************************)
QueuedAction ==
    /\ Running
    /\ loop = "running"
    /\ action_queue # <<>>
    /\ ~is_render(Head(action_queue))
    /\ UpdateAndSend(Head(action_queue), Tail(action_queue))
    /\ last' = [source |-> "queue", action |-> Head(action_queue)]
    /\ UNCHANGED <<bottom_bar, overflow_checks, next_id, downs>>

(***************************************************************************)
(* main_loop, the branch `action = action`, for Render: self.render(tui)?  *)
(***************************************************************************)
QueuedRender(height, draw_ok) ==
    /\ Running
    /\ loop = "running"
    /\ action_queue # <<>>
    /\ is_render(Head(action_queue))
    /\ DrawFrame(height, draw_ok)
    /\ action_queue' = Tail(action_queue)
    /\ last' = [source |-> "queue", action |-> Head(action_queue)]
    /\ loop' = IF panic' # "none" THEN loop
               ELSE IF draw_ok THEN AfterIteration(should_quit) ELSE "returned Err"
    /\ UNCHANGED <<bottom_bar, overflow_checks, next_id, downs, should_quit, mode>>

\* a holder of Ctx.action_tx (a component, the fetch collaborator) posts an action
PostAction(action) ==
    /\ Running
    /\ loop \in {"created", "running"}
    /\ Len(action_queue) < MaxQueue
    /\ WithinExploredOffsets(action)
    /\ action_queue' = Append(action_queue, action)
    /\ UNCHANGED <<pageVars, bottom_bar, panic, overflow_checks, next_id, downs,
                   should_quit, mode, loop, screen, last>>

\* the fetch collaborator delivers the next post while the application runs
FetchPost ==
    /\ loop \in {"created", "running"}
    /\ next_id <= MaxLoaded
    /\ AppendPost

\* f.size().height as the loop is explored: one height for each capacity
TerminalHeights == {h \in Heights : h % MinPostHeight = 0}

Next ==
    \/ \E height \in TerminalHeights, draw_ok \in BOOLEAN : RunStart(height, draw_ok)
    \/ \E translated \in Actions \cup {"None"} : TerminalEvent(translated)
    \/ QueuedAction
    \/ \E height \in TerminalHeights, draw_ok \in BOOLEAN : QueuedRender(height, draw_ok)
    \/ \E action \in Actions : PostAction(action)
    \/ FetchPost

Init == InitPage

\* the application: App::run over the page
Spec == Init /\ [][Next]_vars

(***************************************************************************)
(* Scrolling at a fixed capacity: the page as it is after n posts were     *)
(* appended and render was called once with a region of height h.          *)
(***************************************************************************)
Capacity(h) == update_count_of_currently_displaying(NewPage, h).currently_displaying

Feed(n) == [i \in 1 .. n |-> NewPost(i, FeedShape(i))]

InitRendered ==
    \E h \in Heights, n \in 0 .. MaxPosts :
        /\ Capacity(h) >= 1
        /\ n >= Capacity(h)
        /\ posts = Feed(n)
        /\ posts_offset = 0
        /\ currently_focused = 0
        /\ currently_displaying = Capacity(h)
        /\ bottom_bar = [shown |-> FALSE, current_page |-> 0]
        /\ panic = "none"
        /\ overflow_checks \in BOOLEAN
        /\ next_id = n + 1
        /\ downs = 0
        /\ should_quit = FALSE
        /\ mode = "Normal"
        /\ action_queue = <<>>
        /\ loop = "created"
        /\ screen = BlankScreen
        /\ last = NothingHandled

\* one of a run of scroll_down calls, counted
DownCounted ==
    /\ downs < MaxDowns
    /\ ScrollDownStep
    /\ downs' = downs + 1

\* scroll_down alone, capacity fixed
SpecDown == InitRendered /\ [][DownCounted]_vars

NextScroll ==
    \/ Up
    \/ Down

\* scroll_up and scroll_down, capacity fixed
SpecScroll == InitRendered /\ [][NextScroll]_vars

(***************************************************************************)
(* Properties of Page                                                      *)
(***************************************************************************)
Ids(ps) == [i \in 1 .. Len(ps) |-> ps[i].id]

\* the posts of the window [posts_offset, posts_offset + currently_displaying)
\* that exist
WindowIds(p) ==
    IF p.posts_offset < 0 \/ p.posts_offset >= Len(p.posts)
    THEN <<>>
    ELSE Ids(SubSeq(p.posts, p.posts_offset + 1,
                    Min(p.posts_offset + p.currently_displaying, Len(p.posts))))

\* C1: render with a region whose height gives capacity 0 completes without
\* failure, lays out no rectangles and leaves posts and posts_offset
\* unchanged, and render_bottom_bar then shows no page indicator.
C1_ZeroCapacityRenderIsHarmless ==
    [][\A h \in Heights :
         (Capacity(h) = 0 /\ Render(h)) =>
             /\ panic' = "none"
             /\ render(page, Region(h), overflow_checks).rects = <<>>
             /\ posts' = posts
             /\ posts_offset' = posts_offset
             /\ ~render_bottom_bar(page').shown]_vars

\* C2: render with fewer than posts_offset + capacity posts does not fail and
\* draws exactly the posts of the window that exist.
C2_PartialWindowDrawsAvailableTail ==
    \A h \in Heights :
        LET p1 == update_count_of_currently_displaying(page, h)
            r == render(page, Region(h), overflow_checks) IN
        (/\ Running
         /\ p1.currently_displaying >= 1
         /\ posts_offset >= 0
         /\ Len(posts) < posts_offset + p1.currently_displaying) =>
            /\ r.panic = "none"
            /\ [k \in 1 .. Len(r.drawn) |-> r.drawn[k].id] = WindowIds(r.page)
            /\ Len(r.rects) = Len(r.drawn)

\* C3: 0 <= posts_offset <= posts.len() in every state of a running Page.
C3_OffsetWithinPosts ==
    Running => (posts_offset >= 0 /\ posts_offset <= Len(posts))

\* C4: currently_focused < currently_displaying in every state of a running
\* Page, the state before the first render included.
C4_FocusWithinCapacity ==
    Running => currently_focused < currently_displaying

\* C5: after k scroll_down calls at capacity c over N posts, focus is k mod c
\* and the offset is c * floor(k / c), never above N.
C5_DownsClamped ==
    Running =>
        LET c == currently_displaying
            N == Len(posts) IN
        /\ currently_focused = downs % c
        /\ posts_offset <= N
        /\ (c * (downs \div c) <= N => posts_offset = c * (downs \div c))

\* C6: at a fixed capacity scroll_up undoes scroll_down exactly, and scroll_up
\* with posts_offset = 0 and currently_focused = 0 changes nothing.
C6_UpUndoesDown ==
    [][/\ ScrollDownStep => scroll_up(page', overflow_checks) = Outcome(page, "none")
       /\ (Up /\ posts_offset = 0 /\ currently_focused = 0) =>
              (page' = page /\ panic' = "none")]_vars

\* a scroll_down has just moved the window forward a page
C6_Witness ==
    /\ Running
    /\ posts_offset > 0
    /\ currently_focused = 0
    /\ currently_displaying >= 2

\* C7: when render finds posts_offset / capacity above the retention
\* threshold, the eviction does not fail, removes exactly 2 * capacity posts
\* from the front, lowers posts_offset by as much, and the posts in the
\* window are the same before and after.
C7_EvictionKeepsWindow ==
    \A h \in Heights :
        LET p1 == update_count_of_currently_displaying(page, h)
            c == p1.currently_displaying
            e == evict(p1, overflow_checks) IN
        (/\ Running
         /\ c >= 1
         /\ UQuotientExceeds(posts_offset, c, RetainedPages)) =>
            /\ e.panic = "none"
            /\ Len(e.page.posts) = Len(posts) - EvictedPages * c
            /\ e.page.posts = SubSeq(posts, EvictedPages * c + 1, Len(posts))
            /\ e.page.posts_offset = posts_offset - EvictedPages * c
            /\ WindowIds(e.page) = WindowIds(p1)

\* C8: a second render with the same region and no change to posts in between
\* yields the same capacity, posts_offset and rectangles as the first.
C8_RenderIdempotent ==
    \A h \in Heights :
        LET r1 == render(page, Region(h), overflow_checks)
            r2 == render(r1.page, Region(h), overflow_checks) IN
        (Running /\ r1.panic = "none") =>
            /\ r2.panic = "none"
            /\ r2.page.currently_displaying = r1.page.currently_displaying
            /\ r2.page.posts_offset = r1.page.posts_offset
            /\ r2.rects = r1.rects

(***************************************************************************)
(* Properties of the runtime loop                                          *)
(***************************************************************************)
FromTerminal(action) == TerminalEvent(action)

FromQueue(action) ==
    /\ action_queue # <<>>
    /\ Head(action_queue) = action
    /\ QueuedAction

\* C9: processing Quit, from either source, sets should_quit, leaves the page
\* alone, queues nothing, and the loop returns Ok in that same iteration; the
\* loop has returned Ok exactly when should_quit is set; should_quit is never
\* reset; and nothing is processed after the return.
C9_QuitEndsLoop ==
    [][/\ FromTerminal("Quit") =>
              /\ should_quit' /\ loop' = "returned Ok"
              /\ page' = page /\ action_queue' = action_queue
       /\ FromQueue("Quit") =>
              /\ should_quit' /\ loop' = "returned Ok"
              /\ page' = page /\ action_queue' = Tail(action_queue)
       /\ (loop' = "returned Ok") <=> should_quit'
       /\ should_quit => should_quit'
       /\ loop = "returned Ok" => UNCHANGED vars]_vars

\* the loop has returned Ok on Quit with an action still waiting in the queue
C9_Witness ==
    /\ loop = "returned Ok"
    /\ should_quit
    /\ action_queue # <<>>

SwitchSteps ==
    \/ FromTerminal("SwitchToInputMode")
    \/ FromQueue("SwitchToInputMode")
    \/ FromTerminal("SwitchToNormalMode")
    \/ FromQueue("SwitchToNormalMode")

\* C10: processing SwitchToInputMode, from either source, leaves mode = Input
\* and adds exactly one Render to the queue; SwitchToNormalMode likewise with
\* mode = Normal; no other step changes mode.
C10_SwitchSetsModeAndQueuesRender ==
    [][/\ FromTerminal("SwitchToInputMode") =>
              /\ mode' = "Input"
              /\ action_queue' = Append(action_queue, "Render")
       /\ FromQueue("SwitchToInputMode") =>
              /\ mode' = "Input"
              /\ action_queue' = Append(Tail(action_queue), "Render")
       /\ FromTerminal("SwitchToNormalMode") =>
              /\ mode' = "Normal"
              /\ action_queue' = Append(action_queue, "Render")
       /\ FromQueue("SwitchToNormalMode") =>
              /\ mode' = "Normal"
              /\ action_queue' = Append(Tail(action_queue), "Render")
       /\ mode' # mode => SwitchSteps]_vars

\* SwitchToInputMode has been processed and its Render is the last in the queue
C10_Witness ==
    /\ mode = "Input"
    /\ action_queue # <<>>
    /\ action_queue[Len(action_queue)] = "Render"

\* the loop's own state and the page are as they were
LoopAndPageUntouched ==
    /\ page' = page
    /\ panic' = "none"
    /\ screen' = screen
    /\ should_quit' = should_quit
    /\ mode' = mode
    /\ loop' = loop

\* C11: an action other than Up and Down reaching Page::handle_actions gets
\* None back and leaves the page as it was; the loop then queues nothing,
\* draws nothing and leaves should_quit and mode alone.
C11_UnrecognizedActionPassesThrough ==
    [][/\ \A a \in Actions \ {"Up", "Down"} :
              handle_actions(page, a, overflow_checks) = Handled(page, "none", "None")
       /\ FromTerminal("Other") =>
              (LoopAndPageUntouched /\ action_queue' = action_queue)
       /\ FromQueue("Other") =>
              (LoopAndPageUntouched /\ action_queue' = Tail(action_queue))]_vars

\* an unrecognized action was taken from the queue and nothing was queued for it
C11_Witness ==
    /\ last = [source |-> "queue", action |-> "Other"]
    /\ loop = "running"
    /\ action_queue = <<>>

\* C12: after every render with capacity c >= 1 the page index
\* posts_offset / c is at most 3, so at most 4 * c posts are resident up to
\* the end of the window.
C12_RenderBoundsPageIndex ==
    [][\A h \in Heights :
         (Render(h) /\ panic' = "none" /\ currently_displaying' >= 1) =>
             /\ posts_offset' >= 0
             /\ posts_offset' \div currently_displaying' <= RetainedPages
             /\ posts_offset' + currently_displaying' <=
                    (RetainedPages + 1) * currently_displaying']_vars

\* C17: no unsigned subtraction of Page underflows: not posts_offset -
\* capacity or capacity - 1 in scroll_up, not posts_offset - 2 * capacity or the
\* drained range in the eviction, not region height - occupied height in render.
C17_NoUnsignedUnderflow ==
    Running =>
        /\ (currently_focused = 0 /\ posts_offset # 0) =>
               /\ ~USubUnderflows(posts_offset, currently_displaying)
               /\ currently_displaying >= 1
        /\ \A h \in Heights :
               LET p1 == update_count_of_currently_displaying(page, h)
                   c == p1.currently_displaying
                   r == render(page, Region(h), overflow_checks) IN
               /\ (c >= 1 /\ UQuotientExceeds(posts_offset, c, RetainedPages)) =>
                      /\ EvictedPages * c <= Len(posts)
                      /\ ~USubUnderflows(posts_offset, EvictedPages * c)
               /\ sum_heights(r.rects) <= h

\* C13: with capacity c >= 1, Down takes (offset, focus) to (offset, focus + 1)
\* if focus + 1 < c and to (offset + c, 0) otherwise; Up takes it to
\* (offset, focus - 1) if focus > 0, to (offset - c, c - 1) if focus = 0 and
\* offset # 0, and leaves it if both are 0; the handler returns Render, draws
\* nothing and leaves posts and the capacity unchanged.
C13_ScrollStepFunction ==
    [][LET c == currently_displaying
           o == posts_offset
           f == currently_focused IN
       c >= 1 =>
         /\ handle_actions(page, "Down", overflow_checks).follow_up = "Render"
         /\ handle_actions(page, "Up", overflow_checks).follow_up = "Render"
         /\ ScrollDownStep =>
              /\ panic' = "none"
              /\ posts' = posts /\ currently_displaying' = c /\ screen' = screen
              /\ IF f + 1 < c
                 THEN posts_offset' = o /\ currently_focused' = f + 1
                 ELSE /\ ~UAddOverflows(o, c)
                      /\ posts_offset' = o + c /\ currently_focused' = 0
         /\ Up =>
              /\ panic' = "none"
              /\ posts' = posts /\ currently_displaying' = c /\ screen' = screen
              /\ CASE f > 0 -> posts_offset' = o /\ currently_focused' = f - 1
                   [] f = 0 /\ o # 0 ->
                        /\ ~USubUnderflows(o, c)
                        /\ posts_offset' = o - c /\ currently_focused' = c - 1
                   [] OTHER -> posts_offset' = o /\ currently_focused' = f]_vars

\* C18: whenever scroll_up, scroll_down or the eviction assigns posts_offset,
\* the new value is a multiple of the capacity current at that moment.
C18_OffsetMultipleOfCapacity ==
    [][(/\ posts_offset' # posts_offset
        /\ panic' = "none"
        /\ posts_offset' >= 0
        /\ currently_displaying' >= 1) =>
           posts_offset' % currently_displaying' = 0]_vars

\* C20: during render exactly the post at window position currently_focused
\* is drawn with is_focused set, and after render no post has is_focused set.
C20_ExactlyTheFocusedPostIsMarked ==
    [][\A h \in Heights :
         (Render(h) /\ panic' = "none") =>
             LET r == render(page, Region(h), overflow_checks) IN
             /\ \A k \in 1 .. Len(r.drawn) :
                    r.drawn[k].is_focused <=> (k - 1 = currently_focused)
             /\ \E k \in 1 .. Len(r.drawn) : r.drawn[k].is_focused
             /\ \A i \in 1 .. Len(posts') : ~posts'[i].is_focused]_vars

(***************************************************************************)
(* Layout: a page holding any mix of post shapes, rendered and scrolled.   *)
(***************************************************************************)
InitLayout ==
    \E n \in 0 .. MaxWindow :
        \E shapes \in [1 .. n -> PostShapes] :
            /\ posts = [i \in 1 .. n |-> NewPost(i, shapes[i])]
            /\ posts_offset = NewPage.posts_offset
            /\ currently_focused = NewPage.currently_focused
            /\ currently_displaying = NewPage.currently_displaying
            /\ bottom_bar = [shown |-> FALSE, current_page |-> 0]
            /\ panic = "none"
            /\ overflow_checks \in BOOLEAN
            /\ next_id = n + 1
            /\ downs = 0
            /\ should_quit = FALSE
            /\ mode = "Normal"
            /\ action_queue = <<>>
            /\ loop = "created"
            /\ screen = BlankScreen
            /\ last = NothingHandled

NextLayout ==
    \/ \E h \in Heights : Render(h)
    \/ Down
    \/ Up

SpecLayout == InitLayout /\ [][NextLayout]_vars

ShapeOf(post) ==
    [body_is_empty |-> post.body_is_empty, is_image_only |-> post.is_image_only,
     image_is_wide |-> post.image_is_wide]

\* the heights the claim gives: 5 content-free, 7 wide image, 8 narrow image,
\* 7 otherwise
ClaimedHeight(post) ==
    CASE ShapeOf(post) = TitleOnly -> 5
      [] ShapeOf(post) = WideImage -> 7
      [] ShapeOf(post) = NarrowImage -> 8
      [] OTHER -> 7

RECURSIVE ClaimedHeightsBefore(_, _, _)
ClaimedHeightsBefore(ps, from, k) ==
    IF k <= 1 THEN 0
    ELSE ClaimedHeightsBefore(ps, from, k - 1) + ClaimedHeight(ps[from + k - 2])

\* C19: render gives the posts of the window the heights 5, 7, 8 or 7 by
\* shape, stacked from the top of the region; the heights sum to at most the
\* region height; padding applies exactly when region height minus that sum
\* exceeds the number of posts shown, and then the i-th post (from 0) is drawn
\* i + 1 rows lower, one empty row above each; the rectangles drawn are inside
\* the region and do not overlap.
C19_LayoutHeightsAndPadding ==
    [][\A h \in Heights :
         (Render(h) /\ panic' = "none") =>
             LET r == render(page, Region(h), overflow_checks)
                 n == Len(r.drawn)
                 from == posts_offset' + 1
                 total == ClaimedHeightsBefore(posts', from, n + 1)
                 pad == h - total > n
                 top(k) == ClaimedHeightsBefore(posts', from, k) + (IF pad THEN k ELSE 0)
             IN
             /\ n = currently_displaying'
             /\ Len(r.rects) = n
             /\ total <= h
             /\ \A k \in 1 .. n :
                    /\ r.drawn[k].id = posts'[from + k - 1].id
                    /\ r.rects[k].height = ClaimedHeight(posts'[from + k - 1])
                    /\ r.drawn[k].height = r.rects[k].height
                    /\ r.drawn[k].y = top(k)
                    /\ r.drawn[k].y + r.drawn[k].height <= h
             /\ \A j, k \in 1 .. n :
                    j < k => r.drawn[j].y + r.drawn[j].height <= r.drawn[k].y]_vars

\* a rendered window of three posts of three different shapes, for which one
\* region height of this capacity leaves room for the padding and another
\* does not
C19_Witness ==
    /\ Running
    /\ currently_displaying = 3
    /\ posts_offset = 0
    /\ Len(posts) = 3
    /\ {ShapeOf(posts[i]) : i \in 1 .. 3} = {BodyOnly, WideImage, NarrowImage}
    /\ \E h1, h2 \in Heights :
           /\ Capacity(h1) = 3 /\ Capacity(h2) = 3
           /\ h1 - sum_heights(rects_for_posts(page, Region(h1)).rects) > 3
           /\ h2 - sum_heights(rects_for_posts(page, Region(h2)).rects) <= 3

(***************************************************************************)
(* Render actions, the queue and redraws                                   *)
(***************************************************************************)
\* a Render is dequeued and the frame is drawn without a panic or draw error
RenderDequeuedAndDrawn ==
    /\ \E h \in TerminalHeights : QueuedRender(h, TRUE)
    /\ panic' = "none"

\* C14: a Render arriving from either path is drawn in the iteration in which
\* it arrives, and is not put on the queue again.
C14_RenderDrawnOnArrival ==
    [][/\ RenderDequeuedAndDrawn =>
              /\ screen' = FrameOf(page')
              /\ action_queue' = Tail(action_queue)
       /\ FromTerminal("Render") =>
              /\ screen' = FrameOf(page')
              /\ action_queue' = action_queue]_vars

\* C14, amended: a Render taken from the queue is drawn in that iteration and
\* leaves the queue; a Render translated from a terminal event draws nothing
\* and changes nothing but the queue, to whose tail it is appended; the
\* screen changes only in the initial render and when a Render is dequeued.
C14_RenderDrawnWhenDequeued ==
    [][/\ RenderDequeuedAndDrawn =>
              /\ screen' = FrameOf(page')
              /\ action_queue' = Tail(action_queue)
       /\ FromTerminal("Render") =>
              /\ LoopAndPageUntouched
              /\ action_queue' = Append(action_queue, "Render")
       /\ screen' # screen =>
              \E h \in TerminalHeights :
                  RunStart(h, TRUE) \/ QueuedRender(h, TRUE)]_vars

\* a Render came as a terminal event while the screen was behind the page:
\* the screen is still behind, and the Render waits at the tail of the queue
C14_Witness ==
    /\ last = [source |-> "terminal", action |-> "Render"]
    /\ loop = "running"
    /\ screen.drawn
    /\ screen # FrameOf(page)
    /\ action_queue # <<>>
    /\ action_queue[Len(action_queue)] = "Render"

IsPrefix(s, t) == Len(s) <= Len(t) /\ SubSeq(t, 1, Len(s)) = s

TerminalBranch == \E a \in Actions \cup {"None"} : TerminalEvent(a)

QueueBranch ==
    \/ QueuedAction
    \/ \E h \in TerminalHeights, ok \in BOOLEAN : QueuedRender(h, ok)

\* C15: a follow-up action is appended to the tail of the queue and is not
\* executed in the iteration that produced it (nothing is drawn, capacity is
\* not recomputed); the action branch handles the head of the queue and removes
\* exactly it; the terminal branch removes nothing from the queue; every step
\* keeps the order of the actions that stay queued.
C15_QueueIsFifo ==
    [][/\ TerminalBranch =>
              /\ IsPrefix(action_queue, action_queue')
              /\ Len(action_queue') <= Len(action_queue) + 1
              /\ screen' = screen
              /\ currently_displaying' = currently_displaying
       /\ QueueBranch =>
              /\ last' = [source |-> "queue", action |-> Head(action_queue)]
              /\ IsPrefix(Tail(action_queue), action_queue')
              /\ Len(action_queue') <= Len(action_queue)
       /\ QueuedAction =>
              /\ screen' = screen
              /\ currently_displaying' = currently_displaying
       /\ \A a \in Actions :
              (FromTerminal(a) \/ FromQueue(a)) =>
                  LET u == update(should_quit, mode, page, a, overflow_checks) IN
                  (u.follow_up # "None" /\ panic' = "none") =>
                      /\ action_queue' # <<>>
                      /\ action_queue'[Len(action_queue')] = u.follow_up
                      /\ page' = u.page
       /\ \A a \in Actions :
              PostAction(a) => action_queue' = Append(action_queue, a)
       /\ action_queue' # action_queue =>
              \/ IsPrefix(action_queue, action_queue')
              \/ action_queue # <<>> /\ IsPrefix(Tail(action_queue), action_queue')]_vars

\* the terminal branch won while an action waited in the queue: that action
\* is still first, and the follow-up of the scroll stands behind it
C15_Witness ==
    /\ last.source = "terminal"
    /\ last.action \in {"Up", "Down"}
    /\ loop = "running"
    /\ Len(action_queue) = 2
    /\ action_queue[1] # "Render"
    /\ action_queue[2] = "Render"

(***************************************************************************)
(* The application with a fair select!: an action waiting in the queue is  *)
(* eventually received by the `action = action` branch.                    *)
(***************************************************************************)
SpecFair ==
    /\ Init
    /\ [][Next]_vars
    /\ WF_vars(QueuedAction)
    /\ WF_vars(\E h \in TerminalHeights, ok \in BOOLEAN : QueuedRender(h, ok))

\* an Up or Down was the last action the loop handled
ScrollProcessed ==
    /\ last.action \in {"Up", "Down"}
    /\ panic = "none"

\* C16: after the loop has processed an Up or Down, eventually the screen
\* shows a frame with the page's posts_offset and currently_focused, unless
\* Quit is processed first (or the draw itself fails with an error).
C16_ScrollEventuallyDrawn ==
    [](ScrollProcessed =>
           <>(screen = FrameOf(page) \/ should_quit \/ loop = "returned Err"))

====
